---- MODULE Spec2Model ----
(***************************************************************************)
(* BookingAPP: the reservation service over the in-memory storage, the      *)
(* client service it depends on, the property availability helper and the   *)
(* calendar.                                                                *)
(*                                                                          *)
(* Dates are instants on a discrete clock (one unit = one clock reading a   *)
(* JavaScript Date can distinguish); a JavaScript object is a function from *)
(* its keys to their values, so a patch object holds exactly the keys that  *)
(* were set on it.  Inputs are well-typed: dates are valid Dates and guest  *)
(* counts are integers.                                                     *)
(***************************************************************************)
EXTENDS Integers, Sequences, FiniteSets, TLC

(* ------------------------------ bounds -------------------------------- *)
\* The clock, and the dates of the requests, run over 0..MaxTime.
MaxTime == 2
\* generateId is called at most MaxIds times.
MaxIds == 2
\* uuidv4 is called at most MaxClients times.
MaxClients == 2
\* At most MaxTasks service calls are in flight at a time.
MaxTasks == 2
\* At most MaxCalls service calls are made in one run.
MaxCalls == 4
\* A patch object sets at most MaxPatchFields keys.
MaxPatchFields == 2

(* ------------------------------ values -------------------------------- *)
Undefined == "undefined"
NoError == "none"

Times == 0..MaxTime
Dates == 0..MaxTime
\* The guest counts requested: a negative one, zero and a positive one.
GuestCounts == {0 - 1, 0, 1}

\* src/src/models/Reservation.ts: enum ReservationStatus
PENDING == "pending"
CONFIRMED == "confirmed"
CANCELLED == "cancelled"
COMPLETED == "completed"
ReservationStatus == {PENDING, CONFIRMED, CANCELLED, COMPLETED}

\* The messages of the errors the services throw.  The two not-found
\* messages carry the id that was looked up; the call record holds it.
ErrClientNotFound == "Client with id <id> not found"
ErrReservationNotFound == "Reservation with id <id> not found"
ErrCreatePastDate == "Cannot create reservation for a past date"
ErrCreatePastEnd == "Cannot create reservation with end date in the past"
ErrUpdatePastDate == "Cannot update reservation to a past date"
ErrUpdatePastEnd == "Cannot update reservation with end date in the past"
ErrRange == "End date must be after start date"
ErrGuests == "Number of guests must be greater than 0"
ErrEmailFormat == "Invalid email format"
ErrEmailExists == "Client with this email already exists"

(* ------------------------------ state --------------------------------- *)
VARIABLES
  clock,         \* the wall clock: what new Date() / Date.now() returns next, at least
  counter,       \* idGenerator.ts: let counter
  nuuid,         \* the uuids handed out so far by uuidv4
  clients,       \* InMemoryStorage.clients: Map<string, Client>
  reservations,  \* InMemoryStorage.reservations: Map<string, Reservation>
  ncalls,        \* service calls made so far
  call,          \* the last service call: its arguments, clock readings, storage writes and outcome
  property,      \* the Property handed to the availability helper
  listing,       \* the Reservation[] handed to the availability helper
  info,          \* the PropertyAvailabilityInfo the helper returned
  properties,    \* the Property[] handed to getPropertiesAvailability
  displays,      \* the PropertyAvailabilityDisplay[] it returned, with its clock readings
  window,        \* the startDate and the weeks handed to generateCalendar
  days,          \* the CalendarDay[] it returned
  tasks          \* the service calls in flight: where each one waits, and what it holds

\* The state of the services and the storage.
serviceVars == <<counter, nuuid, clients, reservations, ncalls, call>>
\* The arguments and the results of the availability helper and the calendar.
helperVars == <<property, listing, info, properties, displays, window, days>>

vars == <<clock, serviceVars, helperVars, tasks>>

(* ------------------------------ maps ---------------------------------- *)
EmptyMap == [k \in {} |-> Undefined]

\* Map.prototype.set
MapSet(m, k, v) == [x \in (DOMAIN m) \cup {k} |-> IF x = k THEN v ELSE m[x]]

\* MapDelete emptying the map.
MapDelete_all(m, k) == [x \in {} |-> m[x]]

\* Map.prototype.delete
MapDelete(m, k) == [x \in (DOMAIN m) \ {k} |-> m[x]]

\* { ...a, ...b }: the keys of both, b's values winning.
Spread(a, b) == [f \in (DOMAIN a) \cup (DOMAIN b) |-> IF f \in DOMAIN b THEN b[f] ELSE a[f]]

Has(obj, f) == f \in DOMAIN obj

(* --------------------------- idGenerator.ts --------------------------- *)
\* `${timestamp}-${counter}` of the incremented counter.  The counter alone
\* tells two ids apart, so the id is modelled by it and the timestamp in front
\* of it is left out.
generateId == <<"id", counter + 1>>

\* An id generateId never returns: the counter is at least 1 in every id.
NoSuchId == <<"id", 0>>

\* uuid: v4 returns a value it has not returned before.
uuidv4 == <<"uuid", nuuid + 1>>

\* A client id uuidv4 never returns.
NoSuchClient == <<"uuid", 0>>

(* ------------------------- ClientService.ts --------------------------- *)
\* An email address is the sequence of its characters; "x" stands for any
\* character that is neither whitespace nor "@".
EmailChars == {"x", ".", "@", " "}

NoSpaceNoAt(s) == \A i \in 1..Len(s) : s[i] \notin {" ", "@"}

\* /^[^\s@]+@[^\s@]+\.[^\s@]+$/.test(email)
isValidEmail(email) ==
  \E i \in 1..Len(email) : \E j \in (i + 1)..Len(email) :
    /\ email[i] = "@"
    /\ email[j] = "."
    /\ i > 1 /\ j > i + 1 /\ j < Len(email)
    /\ NoSpaceNoAt(SubSeq(email, 1, i - 1))
    /\ NoSpaceNoAt(SubSeq(email, i + 1, j - 1))
    /\ NoSpaceNoAt(SubSeq(email, j + 1, Len(email)))

Emails == { <<"x", "@", "x", ".", "x">>, <<"x", "@", "x">> }
Names == {"Ann"}
Phones == {"555"}
CreateClientDTOs == [name : Names, email : Emails, phone : Phones]

\* The error createClient throws for dto, NoError when it throws none.
createClientError(dto) ==
  IF ~isValidEmail(dto.email) THEN ErrEmailFormat
  ELSE IF \E id \in DOMAIN clients : clients[id].email = dto.email THEN ErrEmailExists
  ELSE NoError

createClient(dto) ==
  /\ ncalls < MaxCalls
  /\ UNCHANGED <<helperVars, tasks>>
  /\ ncalls' = ncalls + 1
  /\ LET err == createClientError(dto) IN
     IF err # NoError
     THEN /\ call' = [op |-> "createClient", dto |-> dto, error |-> err, writes |-> <<>>,
                      pre |-> reservations]
          /\ UNCHANGED <<clock, counter, nuuid, clients, reservations>>
     ELSE /\ nuuid < MaxClients
          /\ \E now \in clock..MaxTime :
               LET client == [id |-> uuidv4, name |-> dto.name, email |-> dto.email,
                              phone |-> dto.phone, createdAt |-> now, updatedAt |-> now]
               IN /\ clients' = MapSet(clients, client.id, client)
                  /\ nuuid' = nuuid + 1
                  /\ clock' = now
                  /\ call' = [op |-> "createClient", dto |-> dto, error |-> NoError,
                              writes |-> <<[fn |-> "saveClient", arg |-> client]>>,
                              pre |-> reservations, result |-> client]
                  /\ UNCHANGED <<counter, reservations>>

\* The client ids the service is called with: the stored ones and one that
\* is not.
ClientIds == (DOMAIN clients) \cup {NoSuchClient}

\* deleteClient(id): the client is looked up and, when found, deleted from
\* the storage; nothing else is read or written.
deleteClient(id) ==
  /\ ncalls < MaxCalls
  /\ ncalls' = ncalls + 1
  /\ UNCHANGED <<clock, counter, nuuid, reservations, helperVars, tasks>>
  /\ IF id \notin DOMAIN clients
     THEN /\ call' = [op |-> "deleteClient", id |-> id, reads |-> <<>>,
                      error |-> ErrClientNotFound, writes |-> <<>>, pre |-> reservations]
          /\ UNCHANGED clients
     ELSE /\ clients' = MapDelete(clients, id)
          /\ call' = [op |-> "deleteClient", id |-> id, reads |-> <<>>, error |-> NoError,
                      writes |-> <<[fn |-> "deleteClient", id |-> id]>>,
                      pre |-> reservations, result |-> TRUE]

(* ----------------------- ReservationService.ts ------------------------ *)
PropertyIds == {"p1", "p2"}

\* The requests createReservation is called with: the stored clients' ids and
\* one id that is not stored.
CreateReservationDTOs ==
  [clientId : (DOMAIN clients) \cup {NoSuchClient},
   propertyId : {"p1"},
   date : Dates,
   endDate : Dates,
   time : {"14:00"},
   numberOfGuests : GuestCounts,
   notes : {"late arrival"}]

\* createReservationError accepting an end date equal to the start date.
createReservationError_sameDay(dto, now) ==
  IF dto.clientId \notin DOMAIN clients THEN ErrClientNotFound
  ELSE IF dto.date < now THEN ErrCreatePastDate
  ELSE IF dto.endDate < now THEN ErrCreatePastEnd
  ELSE IF dto.endDate < dto.date THEN ErrRange
  ELSE IF dto.numberOfGuests <= 0 THEN ErrGuests
  ELSE NoError

\* createReservationError without the lookup of the client.
createReservationError_anyClient(dto, now) ==
  IF dto.date < now THEN ErrCreatePastDate
  ELSE IF dto.endDate < now THEN ErrCreatePastEnd
  ELSE IF dto.endDate <= dto.date THEN ErrRange
  ELSE IF dto.numberOfGuests <= 0 THEN ErrGuests
  ELSE NoError

\* createReservationError refusing a request whose interval shares an instant
\* with a stored pending or confirmed reservation of the same property.
createReservationError_exclusive(dto, now) ==
  IF dto.clientId \notin DOMAIN clients THEN ErrClientNotFound
  ELSE IF dto.date < now THEN ErrCreatePastDate
  ELSE IF dto.endDate < now THEN ErrCreatePastEnd
  ELSE IF dto.endDate <= dto.date THEN ErrRange
  ELSE IF dto.numberOfGuests <= 0 THEN ErrGuests
  ELSE IF \E id \in DOMAIN reservations :
            /\ reservations[id].propertyId = dto.propertyId
            /\ reservations[id].status \in {PENDING, CONFIRMED}
            /\ reservations[id].date <= dto.endDate
            /\ dto.date <= reservations[id].endDate
       THEN "Property is already booked"
  ELSE NoError

\* The error createReservation throws for dto when new Date() returns now,
\* NoError when it throws none.
createReservationError(dto, now) ==
  IF dto.clientId \notin DOMAIN clients THEN ErrClientNotFound
  ELSE IF dto.date < now THEN ErrCreatePastDate
  ELSE IF dto.endDate < now THEN ErrCreatePastEnd
  ELSE IF dto.endDate <= dto.date THEN ErrRange
  ELSE IF dto.numberOfGuests <= 0 THEN ErrGuests
  ELSE NoError

\* newReservation with the record confirmed from the start.
newReservation_confirmed(dto, now, id) ==
  [id |-> id, clientId |-> dto.clientId, propertyId |-> dto.propertyId,
   date |-> dto.date, endDate |-> dto.endDate, time |-> dto.time,
   numberOfGuests |-> dto.numberOfGuests, status |-> CONFIRMED, notes |-> dto.notes,
   createdAt |-> now, updatedAt |-> now]

\* The record createReservation builds.
newReservation(dto, now, id) ==
  [id |-> id, clientId |-> dto.clientId, propertyId |-> dto.propertyId,
   date |-> dto.date, endDate |-> dto.endDate, time |-> dto.time,
   numberOfGuests |-> dto.numberOfGuests, status |-> PENDING, notes |-> dto.notes,
   createdAt |-> now, updatedAt |-> now]

createReservation(dto) ==
  /\ ncalls < MaxCalls
  /\ ncalls' = ncalls + 1
  /\ UNCHANGED <<nuuid, clients, helperVars, tasks>>
  \* new Date() is evaluated once, after the client has been found
  /\ \E now \in (IF dto.clientId \in DOMAIN clients THEN clock..MaxTime ELSE {clock}) :
       LET err == createReservationError(dto, now)
           reads == IF dto.clientId \in DOMAIN clients THEN <<now>> ELSE <<>>
       IN IF err # NoError
          THEN /\ call' = [op |-> "createReservation", dto |-> dto, reads |-> reads,
                           error |-> err, writes |-> <<>>, pre |-> reservations]
               /\ clock' = now
               /\ UNCHANGED <<counter, reservations>>
          ELSE /\ counter < MaxIds
               /\ LET reservation == newReservation(dto, now, generateId) IN
                    /\ reservations' = MapSet(reservations, reservation.id, reservation)
                    /\ counter' = counter + 1
                    /\ clock' = now
                    /\ call' = [op |-> "createReservation", dto |-> dto, reads |-> reads,
                                error |-> NoError,
                                writes |-> <<[fn |-> "saveReservation", arg |-> reservation]>>,
                                pre |-> reservations, result |-> reservation]

\* UpdateReservationDTO: every key is optional.
PatchFields == {"propertyId", "date", "endDate", "time", "numberOfGuests", "status", "notes"}

PatchValues(f) ==
  CASE f = "propertyId" -> {"p2"}
    [] f = "date" -> Dates
    [] f = "endDate" -> Dates
    [] f = "time" -> {"18:00"}
    [] f = "numberOfGuests" -> GuestCounts
    [] f = "status" -> ReservationStatus
    [] f = "notes" -> {"window seat"}

\* The objects that set at most k of the keys in fields.
RECURSIVE PatchesOver(_, _)
PatchesOver(fields, k) ==
  IF fields = {} \/ k = 0 THEN {EmptyMap}
  ELSE LET f == CHOOSE x \in fields : TRUE
           without == PatchesOver(fields \ {f}, k)
           with == PatchesOver(fields \ {f}, k - 1)
       IN without \cup {MapSet(p, f, v) : p \in with, v \in PatchValues(f)}

UpdateReservationDTOs == PatchesOver(PatchFields, MaxPatchFields)

\* The ids the service is called with: the stored ones and one that is not.
ReservationIds == (DOMAIN reservations) \cup {NoSuchId}

\* updateReservationError accepting a guest count of zero.
updateReservationError_zeroGuests(reservation, dto, nowDate, nowEnd) ==
  IF Has(dto, "date") /\ dto.date < nowDate THEN ErrUpdatePastDate
  ELSE IF Has(dto, "endDate") /\ dto.endDate < nowEnd THEN ErrUpdatePastEnd
  ELSE IF Has(dto, "endDate")
          /\ dto.endDate <= (IF Has(dto, "date") THEN dto.date ELSE reservation.date)
       THEN ErrRange
  ELSE IF Has(dto, "numberOfGuests") /\ dto.numberOfGuests < 0 THEN ErrGuests
  ELSE NoError

\* updateReservationError validating the dates of the merged record, the
\* stored ones included.
updateReservationError_storedDates(reservation, dto, nowDate, nowEnd) ==
  LET merged == Spread(reservation, dto) IN
  IF merged.date < nowDate THEN ErrUpdatePastDate
  ELSE IF merged.endDate < nowEnd THEN ErrUpdatePastEnd
  ELSE IF merged.endDate <= merged.date THEN ErrRange
  ELSE IF Has(dto, "numberOfGuests") /\ dto.numberOfGuests <= 0 THEN ErrGuests
  ELSE NoError

\* The error updateReservation throws after finding reservation, when the
\* new Date() of the start check returns nowDate and that of the end check
\* nowEnd; NoError when it throws none.
updateReservationError(reservation, dto, nowDate, nowEnd) ==
  IF Has(dto, "date") /\ dto.date < nowDate THEN ErrUpdatePastDate
  ELSE IF Has(dto, "endDate") /\ dto.endDate < nowEnd THEN ErrUpdatePastEnd
  ELSE IF Has(dto, "endDate")
          /\ dto.endDate <= (IF Has(dto, "date") THEN dto.date ELSE reservation.date)
       THEN ErrRange
  ELSE IF Has(dto, "numberOfGuests") /\ dto.numberOfGuests <= 0 THEN ErrGuests
  ELSE NoError

\* updatedReservation stamping createdAt as well.
updatedReservation_recreated(reservation, dto, stamp) ==
  Spread(Spread(reservation, dto), [createdAt |-> stamp, updatedAt |-> stamp])

\* updatedReservation with the stored values put over those of the patch.
updatedReservation_storedWins(reservation, dto, stamp) ==
  Spread(Spread(dto, reservation), [updatedAt |-> stamp])

\* { ...reservation, ...dto, updatedAt: new Date() }
updatedReservation(reservation, dto, stamp) ==
  Spread(Spread(reservation, dto), [updatedAt |-> stamp])

\* updateReservation(id, dto), called as op (updateReservation itself, or
\* one of its wrappers).
update(op, id, dto) ==
  /\ ncalls < MaxCalls
  /\ ncalls' = ncalls + 1
  /\ UNCHANGED <<counter, nuuid, clients, helperVars, tasks>>
  /\ IF id \notin DOMAIN reservations
     THEN /\ call' = [op |-> op, id |-> id, dto |-> dto, reads |-> <<>>,
                      error |-> ErrReservationNotFound, writes |-> <<>>, pre |-> reservations]
          /\ UNCHANGED <<clock, reservations>>
     ELSE LET reservation == reservations[id]
              \* new Date() is evaluated only where the check reaches it
              readsDate == Has(dto, "date")
          IN \E nowDate \in (IF readsDate THEN clock..MaxTime ELSE {clock}) :
               LET readsEnd == Has(dto, "endDate") /\ ~(readsDate /\ dto.date < nowDate)
               IN \E nowEnd \in (IF readsEnd THEN nowDate..MaxTime ELSE {nowDate}) :
                    LET err == updateReservationError(reservation, dto, nowDate, nowEnd)
                        reads == (IF readsDate THEN <<nowDate>> ELSE <<>>)
                                 \o (IF readsEnd THEN <<nowEnd>> ELSE <<>>)
                    IN IF err # NoError
                       THEN /\ call' = [op |-> op, id |-> id, dto |-> dto, reads |-> reads,
                                        error |-> err, writes |-> <<>>, pre |-> reservations]
                            /\ clock' = nowEnd
                            /\ UNCHANGED reservations
                       ELSE \E stamp \in nowEnd..MaxTime :
                              LET updated == updatedReservation(reservation, dto, stamp) IN
                              /\ reservations' = MapSet(reservations, id, updated)
                              /\ clock' = stamp
                              /\ call' = [op |-> op, id |-> id, dto |-> dto,
                                          reads |-> Append(reads, stamp), error |-> NoError,
                                          writes |-> <<[fn |-> "updateReservation", id |-> id,
                                                       arg |-> updated]>>,
                                          pre |-> reservations, result |-> updated]

updateReservation(id, dto) == update("updateReservation", id, dto)

confirmReservation(id) == update("confirmReservation", id, [status |-> CONFIRMED])

cancelReservation(id) == update("cancelReservation", id, [status |-> CANCELLED])

\* The null a lookup returns for an id that is not stored.
Null == [null |-> TRUE]

\* getReservation reading the store as it was before the last call.
getReservation_beforeCall(id) ==
  IF id \in DOMAIN call.pre THEN call.pre[id] ELSE Null

\* getReservation(id): this.reservations.get(id) || null
getReservation(id) ==
  IF id \in DOMAIN reservations THEN reservations[id] ELSE Null

\* deleteReservation calling the storage before it looks the reservation up.
deleteReservation_deleteFirst(id) ==
  /\ ncalls < MaxCalls
  /\ ncalls' = ncalls + 1
  /\ UNCHANGED <<clock, counter, nuuid, clients, helperVars, tasks>>
  /\ reservations' = MapDelete(reservations, id)
  /\ call' = [op |-> "deleteReservation", id |-> id, reads |-> <<>>,
              error |-> (IF id \in DOMAIN reservations THEN NoError
                         ELSE ErrReservationNotFound),
              writes |-> <<[fn |-> "deleteReservation", id |-> id]>>,
              pre |-> reservations, result |-> TRUE]

deleteReservation(id) ==
  /\ ncalls < MaxCalls
  /\ ncalls' = ncalls + 1
  /\ UNCHANGED <<clock, counter, nuuid, clients, helperVars, tasks>>
  /\ IF id \notin DOMAIN reservations
     THEN /\ call' = [op |-> "deleteReservation", id |-> id, reads |-> <<>>,
                      error |-> ErrReservationNotFound, writes |-> <<>>, pre |-> reservations]
          /\ UNCHANGED reservations
     ELSE /\ reservations' = MapDelete(reservations, id)
          /\ call' = [op |-> "deleteReservation", id |-> id, reads |-> <<>>,
                      error |-> NoError, writes |-> <<[fn |-> "deleteReservation", id |-> id]>>,
                      pre |-> reservations, result |-> TRUE]

(* ---------------------- the calls, await by await --------------------- *)
\* An async method runs without interruption up to its next await; the
\* storage method it awaits has done its reading or writing by then, and the
\* method goes on, with what the storage returned, after other calls may have
\* run.  tasks[t] tells where call t waits and what it holds in its locals.
Tasks == 1..MaxTasks

Idle == [pc |-> "idle"]

NoTasks == [t \in Tasks |-> Idle]

\* Task t can begin a call.
Free(t) == tasks[t].pc \in {"idle", "done"}

\* Task t begins a call while the calls of others are in flight: it is
\* recorded with each of them.
Begun(t, locals) ==
  [u \in Tasks |->
     IF u = t THEN Spread(locals, [alongside |-> \E v \in Tasks \ {t} : ~Free(v)])
     ELSE IF Free(u) THEN tasks[u]
     ELSE Spread(tasks[u], [alongside |-> TRUE])]

\* Task t goes on to its next await, or ends, with its locals changed.
Continued(t, changes) == [tasks EXCEPT ![t] = Spread(tasks[t], changes)]

\* The call of task t has thrown.
Thrown(t, err) == Continued(t, [pc |-> "done", error |-> err, writes |-> <<>>])

\* A string in a condition: the empty string is falsy.
Truthy(str) == str # <<>>

\* Array.from(this.clients.values())
getAllClients == {clients[id] : id \in DOMAIN clients}

\* getClient(id): this.clients.get(id) || null
getClient(id) == IF id \in DOMAIN clients THEN clients[id] ELSE Null

\* createClient up to `await this.storage.getAllClients()`.
beginCreateClient(t, dto) ==
  /\ Free(t)
  /\ ncalls < MaxCalls
  /\ ncalls' = ncalls + 1
  /\ tasks' = IF ~isValidEmail(dto.email)
              THEN Begun(t, [pc |-> "done", op |-> "createClient", dto |-> dto,
                             error |-> ErrEmailFormat, writes |-> <<>>])
              ELSE Begun(t, [pc |-> "awaitAllClients", op |-> "createClient", dto |-> dto,
                             existingClients |-> getAllClients])
  /\ UNCHANGED <<clock, counter, nuuid, clients, reservations, call, helperVars>>

\* createClient from the check of existingClients to the end; saveClient has
\* written when the method awaits it.
resumeCreateClient(t) ==
  /\ tasks[t].pc = "awaitAllClients"
  /\ tasks[t].op = "createClient"
  /\ IF \E client \in tasks[t].existingClients : client.email = tasks[t].dto.email
     THEN /\ tasks' = Thrown(t, ErrEmailExists)
          /\ UNCHANGED <<nuuid, clients>>
     ELSE /\ nuuid < MaxClients
          /\ LET dto == tasks[t].dto
                 client == [id |-> uuidv4, name |-> dto.name, email |-> dto.email,
                            phone |-> dto.phone, createdAt |-> clock, updatedAt |-> clock]
             IN /\ clients' = MapSet(clients, client.id, client)
                /\ nuuid' = nuuid + 1
                /\ tasks' = Continued(t, [pc |-> "done", error |-> NoError,
                                          writes |-> <<[fn |-> "saveClient", arg |-> client]>>,
                                          result |-> client])
  /\ UNCHANGED <<clock, counter, reservations, ncalls, call, helperVars>>

\* The patches updateClient is called with: a name, or an email that is
\* in use, new, malformed or empty.
UpdateClientDTOs ==
  {[name |-> "Bob"]}
    \cup {[email |-> email] : email \in Emails \cup {<<"y", "@", "y", ".", "y">>, <<>>}}

\* updateClient up to `await this.storage.getClient(id)`.
beginUpdateClient(t, id, dto) ==
  /\ Free(t)
  /\ ncalls < MaxCalls
  /\ ncalls' = ncalls + 1
  /\ tasks' = Begun(t, [pc |-> "awaitClient", op |-> "updateClient", id |-> id, dto |-> dto,
                        client |-> getClient(id)])
  /\ UNCHANGED <<clock, counter, nuuid, clients, reservations, call, helperVars>>

\* The end of updateClient: the merged record is handed to the storage's
\* updateClient, which throws when the id is not stored.
storeUpdatedClient(t) ==
  LET updatedClient == Spread(Spread(tasks[t].client, tasks[t].dto), [updatedAt |-> clock])
  IN IF tasks[t].id \notin DOMAIN clients
     THEN /\ tasks' = Thrown(t, ErrClientNotFound)
          /\ UNCHANGED clients
     ELSE /\ clients' = MapSet(clients, tasks[t].id, updatedClient)
          /\ tasks' = Continued(t, [pc |-> "done", error |-> NoError,
                                    writes |-> <<[fn |-> "updateClient", id |-> tasks[t].id,
                                                 arg |-> updatedClient]>>,
                                    result |-> updatedClient])

\* updateClient from the check of client on: to the end, or up to
\* `await this.storage.getAllClients()` when the email is to change.
resumeUpdateClient(t) ==
  /\ tasks[t].pc = "awaitClient"
  /\ tasks[t].op = "updateClient"
  /\ LET dto == tasks[t].dto
         givesEmail == Has(dto, "email") /\ Truthy(dto.email)
     IN IF tasks[t].client = Null
        THEN tasks' = Thrown(t, ErrClientNotFound) /\ UNCHANGED clients
        ELSE IF givesEmail /\ ~isValidEmail(dto.email)
        THEN tasks' = Thrown(t, ErrEmailFormat) /\ UNCHANGED clients
        ELSE IF givesEmail /\ dto.email # tasks[t].client.email
        THEN /\ tasks' = Continued(t, [pc |-> "awaitAllClients",
                                       existingClients |-> getAllClients])
             /\ UNCHANGED clients
        ELSE storeUpdatedClient(t)
  /\ UNCHANGED <<clock, counter, nuuid, reservations, ncalls, call, helperVars>>

\* updateClient from the check of existingClients to the end.
finishUpdateClient(t) ==
  /\ tasks[t].pc = "awaitAllClients"
  /\ tasks[t].op = "updateClient"
  /\ IF \E c \in tasks[t].existingClients : c.email = tasks[t].dto.email /\ c.id # tasks[t].id
     THEN tasks' = Thrown(t, ErrEmailExists) /\ UNCHANGED clients
     ELSE storeUpdatedClient(t)
  /\ UNCHANGED <<clock, counter, nuuid, reservations, ncalls, call, helperVars>>

\* The requests createReservation is called with here: for one property, with
\* one guest or none.
AsyncCreateReservationDTOs == {dto \in CreateReservationDTOs : dto.numberOfGuests >= 0}

\* The patches updateReservation is called with here: of the dates.
AsyncUpdateReservationDTOs ==
  {dto \in UpdateReservationDTOs : dto # EmptyMap /\ DOMAIN dto \subseteq {"date", "endDate"}}

\* createReservation up to `await this.storage.getClient(dto.clientId)`.
beginCreateReservation(t, dto) ==
  /\ Free(t)
  /\ ncalls < MaxCalls
  /\ ncalls' = ncalls + 1
  /\ tasks' = Begun(t, [pc |-> "awaitClient", op |-> "createReservation", dto |-> dto,
                        client |-> getClient(dto.clientId)])
  /\ UNCHANGED <<clock, counter, nuuid, clients, reservations, call, helperVars>>

\* createReservation from the check of client to the end; no client is
\* deleted here, so a client that was found is still stored when the request
\* is validated.
resumeCreateReservation(t) ==
  /\ tasks[t].pc = "awaitClient"
  /\ tasks[t].op = "createReservation"
  /\ LET dto == tasks[t].dto
         err == IF tasks[t].client = Null THEN ErrClientNotFound
                ELSE createReservationError(dto, clock)
     IN IF err # NoError
        THEN /\ tasks' = Continued(t, [pc |-> "done", error |-> err, writes |-> <<>>,
                                       reads |-> IF tasks[t].client = Null THEN <<>>
                                                 ELSE <<clock>>])
             /\ UNCHANGED <<counter, reservations>>
        ELSE /\ counter < MaxIds
             /\ LET reservation == newReservation(dto, clock, generateId) IN
                  /\ reservations' = MapSet(reservations, reservation.id, reservation)
                  /\ counter' = counter + 1
                  /\ tasks' = Continued(t, [pc |-> "done", error |-> NoError,
                                            reads |-> <<clock>>,
                                            writes |-> <<[fn |-> "saveReservation",
                                                         arg |-> reservation]>>,
                                            result |-> reservation])
  /\ UNCHANGED <<clock, nuuid, clients, ncalls, call, helperVars>>

\* updateReservation up to `await this.storage.getReservation(id)`.
beginUpdateReservation(t, id, dto) ==
  /\ Free(t)
  /\ ncalls < MaxCalls
  /\ ncalls' = ncalls + 1
  /\ tasks' = Begun(t, [pc |-> "awaitReservation", op |-> "updateReservation", id |-> id,
                        dto |-> dto, reservation |-> getReservation(id)])
  /\ UNCHANGED <<clock, counter, nuuid, clients, reservations, call, helperVars>>

\* updateReservation from the check of reservation to the end; the storage's
\* updateReservation throws when the id is not stored.
resumeUpdateReservation(t) ==
  /\ tasks[t].pc = "awaitReservation"
  /\ tasks[t].op = "updateReservation"
  /\ LET dto == tasks[t].dto
         reservation == tasks[t].reservation
         err == IF reservation = Null THEN ErrReservationNotFound
                ELSE updateReservationError(reservation, dto, clock, clock)
     IN IF err # NoError
        THEN /\ tasks' = Continued(t, [pc |-> "done", error |-> err, writes |-> <<>>,
                                       reads |-> <<clock>>])
             /\ UNCHANGED reservations
        ELSE IF tasks[t].id \notin DOMAIN reservations
        THEN /\ tasks' = Continued(t, [pc |-> "done", error |-> ErrReservationNotFound,
                                       writes |-> <<>>, reads |-> <<clock>>])
             /\ UNCHANGED reservations
        ELSE LET updated == updatedReservation(reservation, dto, clock) IN
             /\ reservations' = MapSet(reservations, tasks[t].id, updated)
             /\ tasks' = Continued(t, [pc |-> "done", error |-> NoError, reads |-> <<clock>>,
                                       writes |-> <<[fn |-> "updateReservation",
                                                    id |-> tasks[t].id, arg |-> updated]>>,
                                       result |-> updated])
  /\ UNCHANGED <<clock, counter, nuuid, clients, ncalls, call, helperVars>>

(* ------------------- PropertyAvailabilityHelper.ts -------------------- *)
\* src/src/Properties/Property.ts: enum AvailabilityStatus
AVAILABLE == "available"
UNAVAILABLE == "unavailable"
RESERVED == "reserved"
MAINTENANCE == "maintenance"
AvailabilityStatus == {AVAILABLE, UNAVAILABLE, RESERVED, MAINTENANCE}

\* 24 * 60 * 60 * 1000 ms, in the unit of the model's dates: half a day.
DayLen == 2

\* The value of info, displays and days before the function has been called.
NotCalled == [called |-> FALSE]

\* SelectActive keeping the cancelled and the completed reservations.
RECURSIVE SelectActive_anyStatus(_, _, _)
SelectActive_anyStatus(property_, reservations_, now) ==
  IF reservations_ = <<>> THEN <<>>
  ELSE LET res == Head(reservations_)
           rest == SelectActive_anyStatus(property_, Tail(reservations_), now)
       IN IF res.propertyId = property_.id /\ res.endDate >= now
          THEN <<res>> \o rest
          ELSE rest

\* SelectActive keeping the reservations of the other properties.
RECURSIVE SelectActive_anyProperty(_, _, _)
SelectActive_anyProperty(property_, reservations_, now) ==
  IF reservations_ = <<>> THEN <<>>
  ELSE LET res == Head(reservations_)
           rest == SelectActive_anyProperty(property_, Tail(reservations_), now)
       IN IF res.status \in {CONFIRMED, PENDING} /\ res.endDate >= now
          THEN <<res>> \o rest
          ELSE rest

\* Array.prototype.filter
RECURSIVE SelectActive(_, _, _)
SelectActive(property_, reservations_, now) ==
  IF reservations_ = <<>> THEN <<>>
  ELSE LET res == Head(reservations_)
           rest == SelectActive(property_, Tail(reservations_), now)
       IN IF /\ res.propertyId = property_.id
             /\ res.status \in {CONFIRMED, PENDING}
             /\ res.endDate >= now
          THEN <<res>> \o rest
          ELSE rest

\* One element put into a list sorted by date, behind the elements with the
\* same date.
\* InsertByDate putting the element in front of the list.
InsertByDate_front(sorted, res) == <<res>> \o sorted

RECURSIVE InsertByDate(_, _)
InsertByDate(sorted, res) ==
  IF sorted = <<>> THEN <<res>>
  ELSE IF res.date - Head(sorted).date < 0 THEN <<res>> \o sorted
  ELSE <<Head(sorted)>> \o InsertByDate(Tail(sorted), res)

\* SortByDate leaving the list in the order of the input.
SortByDate_unsorted(list) == list

\* Array.prototype.sort with (a, b) => a.date - b.date; the sort is stable.
RECURSIVE SortByDate(_)
SortByDate(list) ==
  IF list = <<>> THEN <<>>
  ELSE InsertByDate(SortByDate(SubSeq(list, 1, Len(list) - 1)), list[Len(list)])

\* FindIndex returning the last of the elements that pass the test.
FindIndex_last(passing) ==
  IF passing = {} THEN 0
  ELSE CHOOSE i \in passing : \A j \in passing : i >= j

\* Array.prototype.find, given the indices of the elements that pass the
\* test: the index of the first of them, 0 for undefined.
FindIndex(passing) ==
  IF passing = {} THEN 0
  ELSE CHOOSE i \in passing : \A j \in passing : i <= j

\* Math.ceil(n / d) for d > 0
CeilDiv(n, d) == 0 - ((0 - n) \div d)

\* calculateDaysBetween rounding down.
calculateDaysBetween_floor(startDate, endDate) == (endDate - startDate) \div DayLen

\* Math.ceil(timeDiff / (1000 * 60 * 60 * 24))
calculateDaysBetween(startDate, endDate) == CeilDiv(endDate - startDate, DayLen)

calculateAvailabilityInfo(property_, reservations_, now) ==
  LET activeReservations == SortByDate(SelectActive(property_, reservations_, now))
      indices == 1..Len(activeReservations)
      current == FindIndex({i \in indices : /\ activeReservations[i].date <= now
                                            /\ activeReservations[i].endDate >= now})
      next == FindIndex({i \in indices : \/ activeReservations[i].date > now
                                         \/ /\ activeReservations[i].endDate > now
                                            /\ current = 0})
      initial == [isAvailable |-> current = 0 /\ property_.availability # MAINTENANCE]
  IN IF current # 0
     THEN LET currentBooking == activeReservations[current]
              checkOutDate == currentBooking.endDate
              bookingInfo == [reservationId |-> currentBooking.id,
                              clientId |-> currentBooking.clientId,
                              checkInDate |-> currentBooking.date,
                              checkOutDate |-> checkOutDate,
                              durationDays |-> calculateDaysBetween(currentBooking.date,
                                                                    checkOutDate),
                              status |-> currentBooking.status]
              booked == [isAvailable |-> FALSE, currentBooking |-> bookingInfo,
                         bookedUntil |-> checkOutDate]
          IN IF next # 0 /\ next # current
             THEN IF activeReservations[next].endDate > checkOutDate
                  THEN Spread(booked, [nextAvailableDate |-> checkOutDate + DayLen])
                  ELSE booked
             ELSE Spread(booked, [nextAvailableDate |-> checkOutDate + DayLen])
     ELSE IF next # 0
     THEN IF activeReservations[next].date > now
          THEN [isAvailable |-> TRUE, nextAvailableDate |-> activeReservations[next].date]
          ELSE initial
     ELSE [isAvailable |-> property_.availability # MAINTENANCE, nextAvailableDate |-> now]

\* The helper is called with the property and the reservations at hand; its
\* new Date() returns the clock's value.
calculate ==
  /\ info = NotCalled
  /\ info' = calculateAvailabilityInfo(property, listing, clock)
  /\ UNCHANGED <<tasks, clock, serviceVars, property, listing, properties, displays, window, days>>

\* date.toISOString().split('T')[0]: the calendar day the instant falls on.
IsoDay(date) == date \div DayLen

\* createAvailabilityDisplay: the message is the text with the values put
\* into it; a key whose value is undefined is left out of the record.
createAvailabilityDisplay(property_, availabilityInfo) ==
  LET message ==
        IF property_.availability = MAINTENANCE
        THEN [text |-> "Property is currently under maintenance"]
        ELSE IF availabilityInfo.isAvailable
        THEN [text |-> "Property is available now"]
        ELSE IF Has(availabilityInfo, "currentBooking")
        THEN [text |-> "Property is booked for <durationDays> day(s). Available from <bookedUntil>",
              durationDays |-> availabilityInfo.currentBooking.durationDays,
              bookedUntil |-> IF Has(availabilityInfo, "bookedUntil")
                              THEN <<IsoDay(availabilityInfo.bookedUntil)>>
                              ELSE <<"N/A">>]
        ELSE IF Has(availabilityInfo, "nextAvailableDate")
        THEN [text |-> "Property will be available on <nextDate>",
              nextDate |-> IsoDay(availabilityInfo.nextAvailableDate)]
        ELSE [text |-> "Availability information not available"]
      display == [propertyId |-> property_.id, propertyName |-> property_.name,
                  isAvailable |-> availabilityInfo.isAvailable, message |-> message]
      dated == IF Has(availabilityInfo, "nextAvailableDate")
               THEN Spread(display, [nextAvailableDate |-> availabilityInfo.nextAvailableDate])
               ELSE display
  IN IF Has(availabilityInfo, "currentBooking")
     THEN LET booking == availabilityInfo.currentBooking IN
          Spread(dated, [currentBooking |-> [durationDays |-> booking.durationDays,
                                             bookedUntil |-> booking.checkOutDate,
                                             checkInDate |-> booking.checkInDate,
                                             checkOutDate |-> booking.checkOutDate]])
     ELSE dated

\* reservations.filter((res) => res.propertyId === property.id)
RECURSIVE FilterByProperty(_, _)
FilterByProperty(reservations_, id) ==
  IF reservations_ = <<>> THEN <<>>
  ELSE IF Head(reservations_).propertyId = id
       THEN <<Head(reservations_)>> \o FilterByProperty(Tail(reservations_), id)
       ELSE FilterByProperty(Tail(reservations_), id)

\* getPropertiesAvailability with the records in the reverse order.
getPropertiesAvailability_reversed(properties_, reservations_, nows) ==
  [i \in 1..Len(properties_) |->
     LET property_ == properties_[Len(properties_) + 1 - i]
         propertyReservations == FilterByProperty(reservations_, property_.id)
     IN createAvailabilityDisplay(
          property_,
          calculateAvailabilityInfo(property_, propertyReservations,
                                    nows[Len(properties_) + 1 - i]))]

\* properties.map(...): nows[i] is what new Date() returns in the
\* calculateAvailabilityInfo call made for properties[i].
getPropertiesAvailability(properties_, reservations_, nows) ==
  [i \in 1..Len(properties_) |->
     LET property_ == properties_[i]
         propertyReservations == FilterByProperty(reservations_, property_.id)
     IN createAvailabilityDisplay(
          property_, calculateAvailabilityInfo(property_, propertyReservations, nows[i]))]

\* The clock readings of n successive calls: none is below the clock, none
\* is below the one before it.
Readings(n) ==
  {nows \in [1..n -> clock..MaxTime] : \A i \in 1..(n - 1) : nows[i] <= nows[i + 1]}

\* getPropertiesAvailability is called with the properties and the
\* reservations at hand.
listAvailability ==
  /\ displays = NotCalled
  /\ \E nows \in Readings(Len(properties)) :
       /\ displays' = [called |-> TRUE, reads |-> nows,
                       result |-> getPropertiesAvailability(properties, listing, nows)]
       /\ clock' = IF nows = <<>> THEN clock ELSE nows[Len(nows)]
  /\ UNCHANGED <<tasks, serviceVars, property, listing, info, properties, window, days>>

(* ---------------------------- calendar.ts ----------------------------- *)
\* weeks * 7
WeekLen == 7

\* date.setHours(0, 0, 0, 0): the midnight the day of date begins with.
Midnight(date) == date - (date % DayLen)

\* date.setDate(date.getDate() + n)
AddDays(date, n) == date + n * DayLen

\* coversDay with the day the reservation ends on included.
coversDay_inclusive(res, date) ==
  date >= Midnight(res.date) /\ date <= Midnight(res.endDate)

\* The callback of reservations.find: the reservation contains the day.
coversDay(res, date) ==
  date >= Midnight(res.date) /\ date < Midnight(res.endDate)

\* calendarDay taking every day of the future for available.
calendarDay_anyProperty(property_, reservations_, d, today) ==
  LET date == Midnight(d)
      reservation == FindIndex({i \in 1..Len(reservations_) : coversDay(reservations_[i], date)})
      day == [date |-> date,
              isAvailable |-> ~(date < today),
              isReserved |-> reservation # 0,
              isToday |-> date = today,
              isPast |-> date < today]
  IN IF reservation # 0 THEN Spread(day, [reservation |-> reservations_[reservation]]) ELSE day

\* The body of the loop: the CalendarDay for the day of d; the key
\* reservation is left out when find returns undefined.
calendarDay(property_, reservations_, d, today) ==
  LET date == Midnight(d)
      isToday == date = today
      isPast == date < today
      reservation == FindIndex({i \in 1..Len(reservations_) : coversDay(reservations_[i], date)})
      isReserved == reservation # 0
      isAvailable == ~isPast /\ ~isReserved /\ property_.availability = AVAILABLE
      day == [date |-> date, isAvailable |-> isAvailable, isReserved |-> isReserved,
              isToday |-> isToday, isPast |-> isPast]
  IN IF reservation # 0 THEN Spread(day, [reservation |-> reservations_[reservation]]) ELSE day

\* for (let d = new Date(startDate); d < endDate; d.setDate(d.getDate() + 1))
RECURSIVE calendarLoop(_, _, _, _, _)
calendarLoop(property_, reservations_, d, endDate, today) ==
  IF d < endDate
  THEN <<calendarDay(property_, reservations_, d, today)>>
       \o calendarLoop(property_, reservations_, AddDays(d, 1), endDate, today)
  ELSE <<>>

\* generateCalendar when new Date() returns now.
generateCalendar(property_, reservations_, startDate, weeks, now) ==
  LET today == Midnight(now)
      endDate == AddDays(startDate, weeks * WeekLen)
  IN calendarLoop(property_, reservations_, startDate, endDate, today)

\* generateCalendar is called with the property, the reservations and the
\* window at hand.
calendar ==
  /\ days = NotCalled
  /\ days' = [called |-> TRUE,
              result |-> generateCalendar(property, listing, window.startDate, window.weeks,
                                          clock)]
  /\ UNCHANGED <<tasks, clock, serviceVars, property, listing, info, properties, displays, window>>

(* ------------------------------ the clock ----------------------------- *)
\* Time passes between two calls.
Tick ==
  /\ clock < MaxTime
  /\ clock' = clock + 1
  /\ UNCHANGED <<serviceVars, helperVars, tasks>>

(* --------------------------- specification ---------------------------- *)
\* The value of call before any call.
NoCall == [op |-> "none", error |-> NoError, reads |-> <<>>, writes |-> <<>>, pre |-> EmptyMap]

\* After construction: an empty store, no id handed out, no call made.
Init ==
  /\ clock = 0
  /\ counter = 0
  /\ nuuid = 0
  /\ clients = EmptyMap
  /\ reservations = EmptyMap
  /\ ncalls = 0
  /\ call = NoCall
  /\ property = [id |-> "p1", availability |-> AVAILABLE]
  /\ listing = <<>>
  /\ info = NotCalled
  /\ properties = <<>>
  /\ displays = NotCalled
  /\ window = [startDate |-> 0, weeks |-> 0]
  /\ days = NotCalled
  /\ tasks = NoTasks

Next ==
  \/ Tick
  \/ \E dto \in CreateClientDTOs : createClient(dto)
  \/ \E dto \in CreateReservationDTOs : createReservation(dto)
  \/ \E id \in ReservationIds : \E dto \in UpdateReservationDTOs : updateReservation(id, dto)
  \/ \E id \in ReservationIds : confirmReservation(id)
  \/ \E id \in ReservationIds : cancelReservation(id)
  \/ \E id \in ReservationIds : deleteReservation(id)

Spec == Init /\ [][Next]_vars

(* ------- specification of the services with deletion of clients ------- *)
NextIntegrity ==
  \/ Next
  \/ \E id \in ClientIds : deleteClient(id)

SpecIntegrity == Init /\ [][NextIntegrity]_vars

(* ------------ specification of the calls, await by await -------------- *)
NextAsync ==
  \/ \E t \in Tasks : \E dto \in CreateClientDTOs : beginCreateClient(t, dto)
  \/ \E t \in Tasks : resumeCreateClient(t)
  \/ \E t \in Tasks : \E id \in ClientIds : \E dto \in UpdateClientDTOs :
       beginUpdateClient(t, id, dto)
  \/ \E t \in Tasks : resumeUpdateClient(t)
  \/ \E t \in Tasks : finishUpdateClient(t)
  \/ \E t \in Tasks : \E dto \in AsyncCreateReservationDTOs : beginCreateReservation(t, dto)
  \/ \E t \in Tasks : resumeCreateReservation(t)
  \/ \E t \in Tasks : \E id \in ReservationIds : \E dto \in AsyncUpdateReservationDTOs :
       beginUpdateReservation(t, id, dto)
  \/ \E t \in Tasks : resumeUpdateReservation(t)

SpecAsync == Init /\ [][NextAsync]_vars

(* ------------- specification of the availability helper --------------- *)
\* At most MaxListed reservations are handed to the helper.
MaxListed == 2

Properties == [id : {"p1"}, availability : AvailabilityStatus]

\* The i-th reservation of a list: its id tells its place.  A reservation
\* can end a day after the latest start.
ListedReservations(i) ==
  [id : {<<"id", i>>}, clientId : {<<"uuid", 1>>}, propertyId : PropertyIds,
   date : Dates, endDate : 0..(MaxTime + DayLen), status : ReservationStatus]

Listings ==
  UNION { {l \in [1..n -> UNION {ListedReservations(i) : i \in 1..n}] :
             \A i \in 1..n : l[i].id = <<"id", i>>} : n \in 0..MaxListed }

InitAvail ==
  /\ clock \in Times
  /\ counter = 0
  /\ nuuid = 0
  /\ clients = EmptyMap
  /\ reservations = EmptyMap
  /\ ncalls = 0
  /\ call = NoCall
  /\ property \in Properties
  /\ listing \in Listings
  /\ info = NotCalled
  /\ properties = <<>>
  /\ displays = NotCalled
  /\ window = [startDate |-> 0, weeks |-> 0]
  /\ days = NotCalled
  /\ tasks = NoTasks

NextAvail == calculate

SpecAvail == InitAvail /\ [][NextAvail]_vars

(* ------------- specification of getPropertiesAvailability ------------- *)
\* The properties of a list: two ids, in maintenance or not.
ListedProperties == [id : PropertyIds, name : {"Villa"}, availability : {AVAILABLE, MAINTENANCE}]

\* The lists of at most as many properties as there are ids.
PropertyLists == UNION { [1..n -> ListedProperties] : n \in 0..Cardinality(PropertyIds) }

InitList ==
  /\ clock \in Times
  /\ counter = 0
  /\ nuuid = 0
  /\ clients = EmptyMap
  /\ reservations = EmptyMap
  /\ ncalls = 0
  /\ call = NoCall
  /\ property = [id |-> "p1", availability |-> AVAILABLE]
  /\ listing \in Listings
  /\ info = NotCalled
  /\ properties \in PropertyLists
  /\ displays = NotCalled
  /\ window = [startDate |-> 0, weeks |-> 0]
  /\ days = NotCalled
  /\ tasks = NoTasks

NextList == listAvailability

SpecList == InitList /\ [][NextList]_vars

(* --------------------- specification of the calendar ------------------ *)
\* The calendar shows at most MaxWeeks weeks.
MaxWeeks == 1

\* The instants of the days the calendar shows and of the day after them.
CalendarTimes == 0..((MaxWeeks * WeekLen + 1) * DayLen - 1)

\* The i-th reservation handed to the calendar: confirmed or cancelled, it
\* starts at any instant and ends between one instant before that and two and
\* a half days after it.
CalendarReservations(i) ==
  {res \in [id : {<<"id", i>>}, clientId : {<<"uuid", 1>>}, propertyId : {"p1"},
            date : CalendarTimes, endDate : CalendarTimes,
            status : {CONFIRMED, CANCELLED}] :
     res.endDate - res.date \in (0 - 1)..(2 * DayLen + 1)}

CalendarListings ==
  UNION { {l \in [1..n -> UNION {CalendarReservations(i) : i \in 1..n}] :
             \A i \in 1..n : l[i].id = <<"id", i>>} : n \in 0..MaxListed }

\* The properties handed to the calendar: one that is available and one
\* that is not.
CalendarProperties == {p \in Properties : p.availability \in {AVAILABLE, RESERVED}}

\* The window starts on the first day, at midnight or later in the day.
Windows == [startDate : 0..(DayLen - 1), weeks : 0..MaxWeeks]

InitCalendar ==
  /\ clock \in Times
  /\ counter = 0
  /\ nuuid = 0
  /\ clients = EmptyMap
  /\ reservations = EmptyMap
  /\ ncalls = 0
  /\ call = NoCall
  /\ property \in CalendarProperties
  /\ listing \in CalendarListings
  /\ info = NotCalled
  /\ properties = <<>>
  /\ displays = NotCalled
  /\ window \in Windows
  /\ days = NotCalled
  /\ tasks = NoTasks

NextCalendar == calendar

SpecCalendar == InitCalendar /\ [][NextCalendar]_vars

(* ------------------------------- claims ------------------------------- *)
\* The last call was updateReservation, directly or through a wrapper.
IsUpdate == call.op \in {"updateReservation", "confirmReservation", "cancelReservation"}

\* The last call was an update of a reservation that was stored.
IsUpdateOfStored == IsUpdate /\ call.id \in DOMAIN call.pre

\* The last call was one of the reservation service's writing operations.
IsReservationCall ==
  call.op \in {"createReservation", "updateReservation", "confirmReservation",
               "cancelReservation", "deleteReservation"}

Failed == call.error # NoError

NoWrite == call.writes = <<>> /\ reservations = call.pre

\* C1: for a property in maintenance the helper returns isAvailable = false,
\* whatever the time and the reservations (here: even when each of them ends
\* after it starts).
C1_MaintenanceUnavailable ==
  (/\ Has(info, "isAvailable")
   /\ property.availability = MAINTENANCE
   /\ \A i \in 1..Len(listing) : listing[i].endDate > listing[i].date)
  => ~info.isAvailable

\* C2: every stored reservation ends strictly after it starts.
C2_EndAfterStart ==
  \A id \in DOMAIN reservations : reservations[id].endDate > reservations[id].date

\* C3: a patch that supplies one of date / endDate and leaves the merged record
\* with endDate <= date fails with the invalid-range error and writes nothing
\* (unless the supplied date itself is rejected as past).
C3_OneSidedRange ==
  (/\ IsUpdateOfStored
   /\ Has(call.dto, "date") # Has(call.dto, "endDate")
   /\ Spread(call.pre[call.id], call.dto).endDate <= Spread(call.pre[call.id], call.dto).date
   /\ call.error \notin {ErrUpdatePastDate, ErrUpdatePastEnd})
  => (call.error = ErrRange /\ NoWrite)

\* The last call was a createReservation with endDate <= date, or an
\* updateReservation whose patch supplies both dates with endDate <= date.
C4_BadRange ==
  \/ call.op = "createReservation" /\ call.dto.endDate <= call.dto.date
  \/ /\ call.op = "updateReservation"
     /\ Has(call.dto, "date") /\ Has(call.dto, "endDate")
     /\ call.dto.endDate <= call.dto.date

\* The checks that come before the range check passed: the client or the
\* reservation was found and neither requested date was in the past.
C4_ReachedRangeCheck ==
  \/ /\ call.op = "createReservation"
     /\ call.dto.clientId \in DOMAIN clients
     /\ call.dto.date >= call.reads[1] /\ call.dto.endDate >= call.reads[1]
  \/ /\ call.op = "updateReservation"
     /\ call.id \in DOMAIN call.pre
     /\ call.dto.date >= call.reads[1]
     /\ call.dto.endDate >= call.reads[2]

\* C4 as stated: every request with endDate <= date fails with the
\* invalid-range error and nothing is written.
C4_BadRangeIsRangeError == C4_BadRange => (call.error = ErrRange /\ NoWrite)

\* C4, amended: every request with endDate <= date fails and nothing is
\* written; the error is the invalid-range error whenever the checks before
\* the range check pass.
C4_BadRangeFails ==
  C4_BadRange => /\ Failed
                 /\ NoWrite
                 /\ C4_ReachedRangeCheck => call.error = ErrRange

C4_Witness ==
  /\ call.op = "updateReservation"
  /\ C4_BadRange
  /\ C4_ReachedRangeCheck
  /\ call.error = ErrRange

\* The last call was a createReservation with numberOfGuests <= 0, or an
\* update whose patch supplies numberOfGuests <= 0.
C5_BadGuests ==
  \/ call.op = "createReservation" /\ call.dto.numberOfGuests <= 0
  \/ IsUpdate /\ Has(call.dto, "numberOfGuests") /\ call.dto.numberOfGuests <= 0

\* The guest check was reached: the client or the reservation was found, no
\* requested date was in the past and the requested range was in order.
C5_ReachedGuestCheck ==
  \/ /\ call.op = "createReservation"
     /\ call.dto.clientId \in DOMAIN clients
     /\ call.dto.date >= call.reads[1] /\ call.dto.endDate >= call.reads[1]
     /\ call.dto.endDate > call.dto.date
  \/ /\ IsUpdateOfStored
     /\ Has(call.dto, "date") => call.dto.date >= call.reads[1]
     /\ Has(call.dto, "endDate") =>
          /\ call.dto.endDate >= call.reads[IF Has(call.dto, "date") THEN 2 ELSE 1]
          /\ call.dto.endDate > (IF Has(call.dto, "date") THEN call.dto.date
                                 ELSE call.pre[call.id].date)

\* C5 as stated: every request with numberOfGuests <= 0 fails with the
\* invalid-guest-count error and nothing is written.
C5_BadGuestsIsGuestError == C5_BadGuests => (call.error = ErrGuests /\ NoWrite)

\* C5, amended: every request with numberOfGuests <= 0 fails and nothing is
\* written, with the invalid-guest-count error whenever no earlier check
\* throws; and every stored reservation has numberOfGuests >= 1.
C5_BadGuestsFail ==
  /\ C5_BadGuests => /\ Failed
                     /\ NoWrite
                     /\ C5_ReachedGuestCheck => call.error = ErrGuests
  /\ \A id \in DOMAIN reservations : reservations[id].numberOfGuests >= 1

C5_Witness ==
  /\ IsUpdateOfStored
  /\ C5_BadGuests
  /\ call.error = ErrGuests
  /\ DOMAIN reservations # {}

\* The last call was a createReservation for a stored client, with
\* date >= now, endDate > date and numberOfGuests >= 1.
C6_ValidCreate ==
  /\ call.op = "createReservation"
  /\ call.dto.clientId \in DOMAIN clients
  /\ call.dto.date >= call.reads[1]
  /\ call.dto.endDate > call.dto.date
  /\ call.dto.numberOfGuests >= 1

\* C6: a valid createReservation succeeds; the record returned is pending,
\* carries the request's fields, is stamped with the now of the validation,
\* and is saved by exactly one saveReservation.
C6_ValidCreateSucceeds ==
  C6_ValidCreate =>
    /\ call.error = NoError
    /\ call.result.status = PENDING
    /\ \A f \in {"clientId", "propertyId", "date", "endDate", "time", "numberOfGuests",
                 "notes"} : call.result[f] = call.dto[f]
    /\ call.result.createdAt = call.reads[1]
    /\ call.result.updatedAt = call.reads[1]
    /\ call.writes = <<[fn |-> "saveReservation", arg |-> call.result]>>
    /\ call.result.id \notin DOMAIN call.pre
    /\ reservations = MapSet(call.pre, call.result.id, call.result)

C6_Witness == C6_ValidCreate /\ call.error = NoError /\ DOMAIN call.pre # {}

\* C7: a reservation call that fails has made no storage write and leaves
\* the stored reservations as they were.
C7_FailureWritesNothing == (IsReservationCall /\ Failed) => NoWrite

C7_Witness ==
  /\ call.op = "updateReservation"
  /\ call.error = ErrUpdatePastEnd
  /\ Cardinality(DOMAIN reservations) > 1

\* The last call was an update of a stored reservation with a patch that
\* holds the status and nothing else.
C8_StatusOnly == IsUpdateOfStored /\ DOMAIN call.dto = {"status"}

\* C8: a status-only update of a stored reservation succeeds and persists
\* the status, whatever the stored dates.
C8_StatusOnlySucceeds ==
  C8_StatusOnly =>
    /\ call.error = NoError
    /\ call.result.status = call.dto.status
    /\ call.writes = <<[fn |-> "updateReservation", id |-> call.id, arg |-> call.result]>>
    /\ reservations = MapSet(call.pre, call.id, call.result)

\* A confirmation made when both dates of the reservation are in the past.
C8_Witness ==
  /\ call.op = "confirmReservation"
  /\ C8_StatusOnly
  /\ call.pre[call.id].date < call.reads[1]
  /\ call.pre[call.id].endDate < call.reads[1]
  /\ call.error = NoError
  /\ reservations[call.id].status = CONFIRMED

\* C9: createReservation for a client id that is not stored fails with the
\* client-not-found error, whatever the dates and the guest count, and
\* saves nothing.
C9_UnknownClientFails ==
  (call.op = "createReservation" /\ call.dto.clientId \notin DOMAIN clients)
  => (call.error = ErrClientNotFound /\ NoWrite)

\* The request is refused for its client alone: its dates and guests are valid.
C9_Witness ==
  /\ call.op = "createReservation"
  /\ call.dto.clientId \notin DOMAIN clients
  /\ call.dto.date >= clock
  /\ call.dto.endDate > call.dto.date
  /\ call.dto.numberOfGuests >= 1
  /\ call.error = ErrClientNotFound
  /\ DOMAIN clients # {}

\* C10: a successful update stamps an updatedAt strictly greater than the
\* one the reservation had before.
C10_UpdatedAtGrows ==
  (IsUpdateOfStored /\ call.error = NoError)
  => call.result.updatedAt > call.pre[call.id].updatedAt

\* C11: within one createReservation or updateReservation call the past-date
\* check of the start date and the one of the end date use the same instant:
\* createReservation reads the clock at most once for its checks, and an
\* update that checks both dates checks them against one reading.
C11_SingleNow ==
  /\ call.op = "createReservation" => Len(call.reads) <= 1
  /\ (/\ IsUpdateOfStored
      /\ Has(call.dto, "date") /\ Has(call.dto, "endDate")
      /\ Len(call.reads) >= 2)
     => call.reads[1] = call.reads[2]

(* ---------------- claims on calculateAvailabilityInfo ----------------- *)
\* The helper has returned.
Called == Has(info, "isAvailable")

\* listing[i] is an active reservation of the property at the time of the
\* call: of this property, pending or confirmed, not ended.
Active(i) ==
  /\ listing[i].propertyId = property.id
  /\ listing[i].status \in {CONFIRMED, PENDING}
  /\ listing[i].endDate >= clock

\* The active reservations whose interval [date, endDate] contains now.
Covering ==
  {i \in 1..Len(listing) : Active(i) /\ listing[i].date <= clock /\ clock <= listing[i].endDate}

\* list without the elements at the places in S.
RECURSIVE Without(_, _)
Without(list, S) ==
  IF list = <<>> THEN <<>>
  ELSE LET front == Without(SubSeq(list, 1, Len(list) - 1), S)
       IN IF Len(list) \in S THEN front ELSE Append(front, list[Len(list)])

\* C12: the result does not change when reservations that are cancelled,
\* completed, ended before now or of another property are taken out of (put
\* into) the input, and none of them becomes the current booking.
C12_InactiveIgnored ==
  Called =>
    LET inactive == {i \in 1..Len(listing) : ~Active(i)} IN
    /\ \A S \in SUBSET inactive :
         calculateAvailabilityInfo(property, Without(listing, S), clock) = info
    /\ \A i \in inactive :
         ~(Has(info, "currentBooking") /\ info.currentBooking.reservationId = listing[i].id)

\* A cancelled reservation of the property covers now, next to an active one
\* that lies in the future.
C12_Witness ==
  /\ Called
  /\ \E i, j \in 1..Len(listing) :
       /\ listing[i].status = CANCELLED
       /\ listing[i].propertyId = property.id
       /\ listing[i].date <= clock /\ clock <= listing[i].endDate
       /\ Active(j) /\ listing[j].date > clock
  /\ ~Has(info, "currentBooking")

\* C13: whenever there is a current booking, nextAvailableDate is defined and
\* is the current booking's end date plus one day (here: even when every
\* reservation ends after it starts).
C13_NextAvailableAfterCurrent ==
  (/\ Has(info, "currentBooking")
   /\ \A i \in 1..Len(listing) : listing[i].endDate > listing[i].date)
  => /\ Has(info, "nextAvailableDate")
     /\ info.nextAvailableDate = info.currentBooking.checkOutDate + DayLen

\* C14: when some active reservation contains now, the property is not
\* available and the current booking is one with the earliest start date
\* among them; bookedUntil is its end date.
C14_CurrentIsEarliestCovering ==
  (Called /\ Covering # {}) =>
    /\ info.isAvailable = FALSE
    /\ Has(info, "currentBooking") /\ Has(info, "bookedUntil")
    /\ \E i \in Covering :
         /\ info.currentBooking.reservationId = listing[i].id
         /\ \A j \in Covering : listing[i].date <= listing[j].date
         /\ info.bookedUntil = listing[i].endDate

\* Two active reservations contain now; the one that started first comes
\* second in the input and is the current booking.
C14_Witness ==
  /\ Called
  /\ Covering = {1, 2}
  /\ listing[2].date < listing[1].date
  /\ info.currentBooking.reservationId = listing[2].id
  /\ info.bookedUntil = listing[2].endDate

\* C15: when no active reservation contains now and some active reservation
\* starts after now, the property (whatever its availability) is available,
\* there is no current booking, and nextAvailableDate is the earliest start
\* date of the active reservations.
C15_FutureOnly ==
  (/\ Called
   /\ Covering = {}
   /\ \E i \in 1..Len(listing) : Active(i) /\ listing[i].date > clock)
  => /\ info.isAvailable = TRUE
     /\ ~Has(info, "currentBooking")
     /\ Has(info, "nextAvailableDate")
     /\ \E i \in 1..Len(listing) :
          /\ Active(i)
          /\ info.nextAvailableDate = listing[i].date
          /\ \A j \in 1..Len(listing) : Active(j) => listing[i].date <= listing[j].date

\* Two future reservations, the later one first in the input.
C15_Witness ==
  /\ Called
  /\ Covering = {}
  /\ Len(listing) = 2
  /\ Active(1) /\ Active(2)
  /\ clock < listing[2].date /\ listing[2].date < listing[1].date
  /\ info.isAvailable = TRUE
  /\ info.nextAvailableDate = listing[2].date

\* C16: when the input holds no active reservation of the property,
\* isAvailable tells whether the property is out of maintenance,
\* nextAvailableDate is now, and there is no current booking and no
\* bookedUntil.
C16_NoActive ==
  (Called /\ \A i \in 1..Len(listing) : ~Active(i))
  => /\ info.isAvailable = (property.availability # MAINTENANCE)
     /\ Has(info, "nextAvailableDate") /\ info.nextAvailableDate = clock
     /\ ~Has(info, "currentBooking")
     /\ ~Has(info, "bookedUntil")

\* An unavailable property whose only reservations are another property's
\* pending one and an ended one of its own.
C16_Witness ==
  /\ Called
  /\ property.availability = UNAVAILABLE
  /\ Len(listing) = 2
  /\ listing[1].propertyId # property.id /\ listing[1].status = PENDING
  /\ listing[1].date <= clock /\ clock <= listing[1].endDate
  /\ listing[2].propertyId = property.id /\ listing[2].endDate < clock
  /\ info.isAvailable = TRUE
  /\ info.nextAvailableDate = clock

\* C17: durationDays of the current booking is the least number of days
\* that covers checkOutDate - checkInDate: never negative, and at least 1
\* when the booking ends after it starts.
C17_DurationDays ==
  Has(info, "currentBooking") =>
    LET booking == info.currentBooking
        timeDiff == booking.checkOutDate - booking.checkInDate
    IN /\ \E i \in Covering : /\ listing[i].id = booking.reservationId
                               /\ listing[i].date = booking.checkInDate
                               /\ listing[i].endDate = booking.checkOutDate
       /\ booking.durationDays * DayLen >= timeDiff
       /\ (booking.durationDays - 1) * DayLen < timeDiff
       /\ booking.durationDays >= 0
       /\ timeDiff > 0 => booking.durationDays >= 1

\* A current booking shorter than a day counts one day.
C17_Witness ==
  /\ Has(info, "currentBooking")
  /\ info.currentBooking.checkOutDate - info.currentBooking.checkInDate > 0
  /\ info.currentBooking.checkOutDate - info.currentBooking.checkInDate < DayLen
  /\ info.currentBooking.durationDays = 1

(* ---------------- claims on getPropertiesAvailability ----------------- *)
\* C18: getPropertiesAvailability returns one record per property, in the
\* order of the input, and the record of a property is the one computed from
\* that property alone and the input without any of the reservations of
\* other properties.
C18_OnePerProperty ==
  Has(displays, "result") =>
    /\ Len(displays.result) = Len(properties)
    /\ \A i \in 1..Len(properties) :
         LET foreign == {j \in 1..Len(listing) : listing[j].propertyId # properties[i].id} IN
         /\ displays.result[i].propertyId = properties[i].id
         /\ \A S \in SUBSET foreign :
              getPropertiesAvailability(<<properties[i]>>, Without(listing, S),
                                        <<displays.reads[i]>>)[1] = displays.result[i]

\* Two properties, each with a current booking, the reservations listed in
\* the opposite order.
C18_Witness ==
  /\ Has(displays, "result")
  /\ Len(properties) = 2 /\ Len(listing) = 2
  /\ properties[1].id # properties[2].id
  /\ listing[1].propertyId = properties[2].id
  /\ listing[2].propertyId = properties[1].id
  /\ listing[1].date # listing[2].date
  /\ Has(displays.result[1], "currentBooking")
  /\ Has(displays.result[2], "currentBooking")
  /\ displays.result[1].currentBooking.checkInDate = listing[2].date
  /\ displays.result[2].currentBooking.checkInDate = listing[1].date

(* ----------------------- claims on the calendar ----------------------- *)
\* The number of the day an instant falls on.
DayNumber(date) == date \div DayLen

\* The reservations whose days, end day excluded, include the day of date.
ReservedBy(date) ==
  {i \in 1..Len(listing) : /\ DayNumber(listing[i].date) <= DayNumber(date)
                           /\ DayNumber(date) < DayNumber(listing[i].endDate)}

\* C19: generateCalendar returns weeks * 7 days, the midnights of the
\* consecutive days from startDate on; a day is reserved iff it lies in
\* [day(r.date), day(r.endDate)) for some reservation r of the input, and it
\* carries the first such r; a single reservation spanning two days of a
\* one-week window marks exactly two days reserved.
C19_CalendarDays ==
  Has(days, "result") =>
    /\ Len(days.result) = window.weeks * 7
    /\ \A k \in 1..Len(days.result) :
         LET day == days.result[k] IN
         /\ day.date = DayNumber(window.startDate) * DayLen + (k - 1) * DayLen
         /\ day.isReserved = (ReservedBy(day.date) # {})
         /\ Has(day, "reservation") = (ReservedBy(day.date) # {})
         /\ Has(day, "reservation") =>
              \E i \in ReservedBy(day.date) :
                /\ day.reservation = listing[i]
                /\ \A j \in ReservedBy(day.date) : i <= j
    /\ (/\ Len(listing) = 1 /\ window.weeks = 1
        /\ DayNumber(listing[1].date) >= DayNumber(window.startDate)
        /\ DayNumber(listing[1].endDate) = DayNumber(listing[1].date) + 2
        /\ DayNumber(listing[1].endDate) <= DayNumber(window.startDate) + 7)
       => /\ Cardinality({k \in 1..Len(days.result) : days.result[k].isReserved}) = 2
          /\ \A k \in 1..Len(days.result) :
               days.result[k].isReserved =
                 (DayNumber(days.result[k].date) - DayNumber(listing[1].date) \in {0, 1})

\* A week of an available property, none of its days past, with one
\* reservation from midday of the third day to midday of the fifth: the third
\* and the fourth day are reserved, the other five are available.
C19_Witness ==
  /\ Has(days, "result")
  /\ window.weeks = 1
  /\ property.availability = AVAILABLE
  /\ Len(listing) = 1
  /\ listing[1].date = 2 * DayLen + 1
  /\ listing[1].endDate = 4 * DayLen + 1
  /\ {k \in 1..Len(days.result) : days.result[k].isReserved} = {3, 4}
  /\ {k \in 1..Len(days.result) : days.result[k].isAvailable} = {1, 2, 5, 6, 7}

\* C20: a day of the calendar is available iff it is not past, not reserved
\* and the property is 'available'; so no day is both available and reserved,
\* none is both past and today, no past day is available, and a property that
\* is not 'available' has no available day.
C20_AvailableDays ==
  Has(days, "result") =>
    \A k \in 1..Len(days.result) :
      LET day == days.result[k] IN
      /\ day.isAvailable = (~day.isPast /\ ~day.isReserved /\ property.availability = AVAILABLE)
      /\ ~(day.isAvailable /\ day.isReserved)
      /\ ~(day.isPast /\ day.isToday)
      /\ day.isPast => ~day.isAvailable
      /\ property.availability # AVAILABLE => ~day.isAvailable

\* A week of a property marked 'reserved' that begins yesterday: a past day,
\* today, and free days to come, none of them available.
C20_Witness ==
  /\ Has(days, "result")
  /\ property.availability = RESERVED
  /\ window.weeks = 1
  /\ days.result[1].isPast
  /\ days.result[2].isToday
  /\ \E k \in 3..Len(days.result) : ~days.result[k].isReserved /\ ~days.result[k].isAvailable
  /\ \E k \in 3..Len(days.result) : days.result[k].isReserved

(* ------------------ claims on the reservation service ----------------- *)
\* The ids generateId can have returned, and the one it never returns.
AllIds == {<<"id", n>> : n \in 0..MaxIds}

\* C21: after a successful createReservation, getReservation of the returned
\* id returns the returned record, equal in every field; getReservation of an
\* id that was never stored, or was deleted, returns null.
C21_RoundTrip ==
  /\ (call.op = "createReservation" /\ call.error = NoError)
     => /\ getReservation(call.result.id) = call.result
        /\ \A f \in DOMAIN call.result : getReservation(call.result.id)[f] = call.result[f]
  /\ \A id \in AllIds \ DOMAIN reservations : getReservation(id) = Null
  /\ (call.op = "deleteReservation" /\ call.error = NoError) => getReservation(call.id) = Null

\* A reservation was created after the one before it had been deleted.
C21_Witness ==
  /\ call.op = "createReservation"
  /\ call.error = NoError
  /\ call.result.id = <<"id", 2>>
  /\ getReservation(<<"id", 2>>) = call.result
  /\ <<"id", 1>> \notin DOMAIN reservations

\* C22: deleteReservation of an id that is not stored fails with the
\* not-found error without calling the storage's deleteReservation; of a
\* stored id it returns true, after which getReservation(id) returns null
\* and every other stored reservation is as before.
C22_Delete ==
  call.op = "deleteReservation" =>
    IF call.id \notin DOMAIN call.pre
    THEN /\ call.error = ErrReservationNotFound
         /\ call.writes = <<>>
         /\ reservations = call.pre
    ELSE /\ call.error = NoError
         /\ call.result = TRUE
         /\ call.writes = <<[fn |-> "deleteReservation", id |-> call.id]>>
         /\ getReservation(call.id) = Null
         /\ DOMAIN reservations = (DOMAIN call.pre) \ {call.id}
         /\ \A other \in (DOMAIN call.pre) \ {call.id} : reservations[other] = call.pre[other]

\* One of two stored reservations was deleted.
C22_Witness ==
  /\ call.op = "deleteReservation"
  /\ call.error = NoError
  /\ Cardinality(DOMAIN call.pre) = 2
  /\ Cardinality(DOMAIN reservations) = 1

\* C23: confirmReservation / cancelReservation of a stored reservation
\* succeeds whatever its status, sets the status to confirmed / cancelled,
\* changes no other field than status and updatedAt, and changes no other
\* stored reservation.
C23_ConfirmCancel ==
  (call.op \in {"confirmReservation", "cancelReservation"} /\ call.id \in DOMAIN call.pre) =>
    /\ call.error = NoError
    /\ DOMAIN reservations = DOMAIN call.pre
    /\ reservations[call.id].status =
         (IF call.op = "confirmReservation" THEN CONFIRMED ELSE CANCELLED)
    /\ DOMAIN reservations[call.id] = DOMAIN call.pre[call.id]
    /\ \A f \in (DOMAIN call.pre[call.id]) \ {"status", "updatedAt"} :
         reservations[call.id][f] = call.pre[call.id][f]
    /\ \A other \in (DOMAIN call.pre) \ {call.id} : reservations[other] = call.pre[other]

\* A cancelled reservation was confirmed.
C23_Witness ==
  /\ call.op = "confirmReservation"
  /\ call.id \in DOMAIN call.pre
  /\ call.pre[call.id].status = CANCELLED
  /\ reservations[call.id].status = CONFIRMED

\* C24: a successful update returns and stores the stored record with the
\* fields of the patch replaced by the patch's values and updatedAt stamped
\* anew; the other fields keep their values, and id, clientId and createdAt
\* never change.
C24_PatchMerged ==
  /\ (IsUpdateOfStored /\ call.error = NoError) =>
       /\ reservations[call.id] = call.result
       /\ call.writes = <<[fn |-> "updateReservation", id |-> call.id, arg |-> call.result]>>
       /\ DOMAIN call.result = DOMAIN call.pre[call.id]
       /\ \A f \in DOMAIN call.dto : call.result[f] = call.dto[f]
       /\ \A f \in (DOMAIN call.pre[call.id]) \ ((DOMAIN call.dto) \cup {"updatedAt"}) :
            call.result[f] = call.pre[call.id][f]
       /\ call.result.updatedAt = call.reads[Len(call.reads)]
       /\ \A f \in {"id", "clientId", "createdAt"} : call.result[f] = call.pre[call.id][f]
  /\ \A id \in DOMAIN reservations : reservations[id].id = id

\* An update replaced the end date and the notes of a reservation.
C24_Witness ==
  /\ call.op = "updateReservation"
  /\ call.error = NoError
  /\ DOMAIN call.dto = {"endDate", "notes"}
  /\ call.result.endDate # call.pre[call.id].endDate
  /\ call.result.notes # call.pre[call.id].notes
  /\ call.result.date = call.pre[call.id].date

\* C26: the clientId of every stored reservation is the id of a stored
\* client, after any sequence of calls that create and delete clients and
\* create, update and delete reservations.
C26_ClientsExist ==
  \A id \in DOMAIN reservations : reservations[id].clientId \in DOMAIN clients

(* ------------------ claims on the calls in flight ---------------------- *)
\* C25: no two stored clients have the same email, whatever createClient
\* and updateClient calls were made and however they interleaved at their
\* awaits.
C25_EmailsUnique ==
  \A a, b \in DOMAIN clients : a # b => clients[a].email # clients[b].email

\* The call of task t has ended.
Done(t) == tasks[t].pc = "done"

\* The errors createReservation and updateReservation throw.
ReservationErrors ==
  {ErrClientNotFound, ErrReservationNotFound, ErrCreatePastDate, ErrCreatePastEnd,
   ErrUpdatePastDate, ErrUpdatePastEnd, ErrRange, ErrGuests}

\* The createReservation call of task t found its client and asked for dates
\* and guests that are valid by themselves.
ValidCreateBy(t) ==
  /\ tasks[t].op = "createReservation"
  /\ tasks[t].client # Null
  /\ tasks[t].dto.date >= tasks[t].reads[1]
  /\ tasks[t].dto.endDate > tasks[t].dto.date
  /\ tasks[t].dto.numberOfGuests >= 1

\* The updateReservation call of task t found its reservation and asked for
\* dates that are valid by themselves and against the record it read.
ValidUpdateBy(t) ==
  /\ tasks[t].op = "updateReservation"
  /\ tasks[t].reservation # Null
  /\ Has(tasks[t].dto, "date") => tasks[t].dto.date >= tasks[t].reads[1]
  /\ Has(tasks[t].dto, "endDate") =>
       /\ tasks[t].dto.endDate >= tasks[t].reads[1]
       /\ tasks[t].dto.endDate > (IF Has(tasks[t].dto, "date") THEN tasks[t].dto.date
                                  ELSE tasks[t].reservation.date)

\* Two stored reservations of one property, both pending or confirmed, whose
\* intervals [date, endDate] share an instant.
DoubleBooked(a, b) ==
  /\ a # b
  /\ reservations[a].propertyId = reservations[b].propertyId
  /\ reservations[a].status \in {PENDING, CONFIRMED}
  /\ reservations[b].status \in {PENDING, CONFIRMED}
  /\ reservations[a].date <= reservations[b].endDate
  /\ reservations[b].date <= reservations[a].endDate

\* C27: createReservation and updateReservation do not fail for an overlap
\* with another reservation: a call whose own request is valid succeeds
\* whatever is stored, and a call that fails does so with one of the errors
\* of the lookups and of the date and guest checks.
C27_OverlapAllowed ==
  \A t \in Tasks :
    (Done(t) /\ tasks[t].op \in {"createReservation", "updateReservation"}) =>
      /\ (ValidCreateBy(t) \/ ValidUpdateBy(t)) => tasks[t].error = NoError
      /\ tasks[t].error # NoError => tasks[t].error \in ReservationErrors

\* Two createReservation calls that were in flight together have both
\* succeeded, and the store holds their two pending reservations of one
\* property, one interval inside the other.
C27_Witness ==
  /\ \A t \in Tasks :
       /\ Done(t)
       /\ ValidCreateBy(t)
       /\ tasks[t].alongside
       /\ tasks[t].error = NoError
       /\ tasks[t].result.id \in DOMAIN reservations
  /\ tasks[1].result.id # tasks[2].result.id
  /\ DoubleBooked(tasks[1].result.id, tasks[2].result.id)

(* ------------- further claims on calculateAvailabilityInfo ------------ *)
\* C28: a nextAvailableDate reported together with a current booking lies
\* in the interval [date, endDate] of no active reservation of the property
\* (here: even when every reservation ends after it starts).
C28_FreeAtNextAvailable ==
  (/\ Has(info, "currentBooking") /\ Has(info, "nextAvailableDate")
   /\ \A i \in 1..Len(listing) : listing[i].endDate > listing[i].date)
  => \A i \in 1..Len(listing) :
       Active(i) => ~(/\ listing[i].date <= info.nextAvailableDate
                      /\ info.nextAvailableDate <= listing[i].endDate)

\* The lists with the elements of list, in any order.
Reorderings(list) ==
  {[i \in 1..Len(list) |-> list[p[i]]] :
     p \in {q \in [1..Len(list) -> 1..Len(list)] :
              \A i, j \in 1..Len(list) : i # j => q[i] # q[j]}}

C30_InactiveNotReserved ==
  Has(days, "result") =>
    \A k \in 1..Len(days.result) :
      LET day == days.result[k] IN
      (/\ ReservedBy(day.date) # {}
       /\ \A i \in ReservedBy(day.date) : listing[i].status \in {CANCELLED, COMPLETED})
      => /\ ~day.isReserved
         /\ (~day.isPast /\ property.availability = AVAILABLE) => day.isAvailable

====
